---- MODULE Spec2Model ----
(***************************************************************************)
(* License key generation and validation of keygen.py.                     *)
(*                                                                         *)
(* Representation.  A Python str is a sequence of code points (integers),  *)
(* a bytes object is a sequence of integers in 0..255, and an arbitrary    *)
(* precision integer built by int.from_bytes is kept as its big-endian     *)
(* byte sequence, so that no value is truncated by the checker's integer   *)
(* width.  The clock readings and timestamps are Python ints too: a        *)
(* record of a sign and a big-endian magnitude (PyInt).  A call that can   *)
(* raise returns a record whose field ok tells whether it returned (field  *)
(* val) or raised (field exc).                                             *)
(*                                                                         *)
(* Specifications.  Spec is the loaded module serving generate and         *)
(* validate calls.  CodecSpec uses the two alphabet functions on their     *)
(* own, HistorySpec repeats a validate call and keeps the earlier one,     *)
(* ThreadSpec interleaves calls of several threads at their reads of the   *)
(* module globals, CliSpec is one run of main() with the validate action,  *)
(* LoadSpec is the module body: load_env_secrets() and the reads of the    *)
(* three secrets, and KeySpec follows one validation through its checks.   *)
(*                                                                         *)
(* hashlib.sha256 and hmac.new are library primitives.  They are not       *)
(* computed here.  Sha256 is a small deterministic stand-in (bytes in, 32  *)
(* bytes out) and HmacSha256 is kept as the unevaluated term over its key  *)
(* and message, so what is checked is the data flow of the repository's    *)
(* code around them, under the usual idealisation of a keyed hash whose    *)
(* results on different inputs differ.  The 'issued' text of a valid       *)
(* result is a formatting of its timestamp and is left out.                *)
(***************************************************************************)
EXTENDS Integers, Sequences, FiniteSets

\* ------------------------------------------------------------------------
\* Code points used by the program text
\* ------------------------------------------------------------------------
Dash == 45
Pipe == 124

\* '23456789ABCDEFGHJKLMNPQRSTUVWXYZ'
LICENSE_ALPHABET ==
    << 50, 51, 52, 53, 54, 55, 56, 57,
       65, 66, 67, 68, 69, 70, 71, 72,
       74, 75, 76, 77, 78, 80, 81, 82,
       83, 84, 85, 86, 87, 88, 89, 90 >>

\* '2'
LICENSE_VERSION == << 50 >>

\* ------------------------------------------------------------------------
\* str / bytes helpers of the Python runtime
\* ------------------------------------------------------------------------
RECURSIVE FindFrom(_, _, _)
FindFrom(s, c, i) ==
    IF i > Len(s) THEN -1
    ELSE IF s[i] = c THEN i - 1
    ELSE FindFrom(s, c, i + 1)

\* str.find: 0-based index of the first occurrence, -1 when absent
Find(s, c) == FindFrom(s, c, 1)

Reversed(s) == [i \in 1..Len(s) |-> s[Len(s) + 1 - i]]

\* str.rjust / bytes.ljust
Rjust(s, width, fill) ==
    IF Len(s) >= width THEN s
    ELSE [i \in 1..(width - Len(s)) |-> fill] \o s

Ljust(s, width, fill) ==
    IF Len(s) >= width THEN s
    ELSE s \o [i \in 1..(width - Len(s)) |-> fill]

\* Python slice s[a:b] with 0 <= a, clipped to the length of s
Slice(s, a, b) ==
    LET hi == IF b > Len(s) THEN Len(s) ELSE b
    IN  IF a >= hi THEN << >> ELSE SubSeq(s, a + 1, hi)

\* Python slice s[-n:]
LastN(s, n) ==
    IF Len(s) <= n THEN s ELSE SubSeq(s, Len(s) - n + 1, Len(s))

RECURSIVE Join(_, _)
Join(sep, parts) ==
    IF Len(parts) = 0 THEN << >>
    ELSE IF Len(parts) = 1 THEN parts[1]
    ELSE parts[1] \o sep \o Join(sep, Tail(parts))

RECURSIVE SplitAcc(_, _, _, _)
SplitAcc(s, sep, i, cur) ==
    IF i > Len(s) THEN << cur >>
    ELSE IF s[i] = sep THEN << cur >> \o SplitAcc(s, sep, i + 1, << >>)
    ELSE SplitAcc(s, sep, i + 1, Append(cur, s[i]))

\* str.split(sep) for a one-character separator
Split(s, sep) == SplitAcc(s, sep, 1, << >>)

\* str.upper on the ASCII range
UpperChar(c) == IF c >= 97 /\ c <= 122 THEN c - 32 ELSE c

\* str.lower in place of str.upper
Upper_lower(s) ==
    [i \in 1..Len(s) |-> IF s[i] >= 65 /\ s[i] <= 90 THEN s[i] + 32 ELSE s[i]]

Upper(s) == [i \in 1..Len(s) |-> UpperChar(s[i])]

\* ------------------------------------------------------------------------
\* Arbitrary precision integers as big-endian byte sequences
\* ------------------------------------------------------------------------
RECURSIVE ModSmallAcc(_, _, _, _)
ModSmallAcc(bs, d, i, r) ==
    IF i > Len(bs) THEN r
    ELSE ModSmallAcc(bs, d, i + 1, (r * 256 + bs[i]) % d)

\* value % d
ModSmall(bs, d) == ModSmallAcc(bs, d, 1, 0)

RECURSIVE DivSmallAcc(_, _, _, _)
DivSmallAcc(bs, d, i, r) ==
    IF i > Len(bs) THEN << >>
    ELSE LET cur == r * 256 + bs[i]
         IN  << cur \div d >> \o DivSmallAcc(bs, d, i + 1, cur % d)

\* value // d
DivSmall(bs, d) == DivSmallAcc(bs, d, 1, 0)

RECURSIVE StripZeros(_)
StripZeros(s) ==
    IF Len(s) > 0 /\ s[1] = 0 THEN StripZeros(Tail(s)) ELSE s

\* ------------------------------------------------------------------------
\* Python int values that can exceed 31 bits (clock readings, timestamps):
\* a sign and the magnitude as big-endian bytes without a leading zero byte
\* ------------------------------------------------------------------------
RECURSIVE Magnitude(_)
Magnitude(n) == IF n = 0 THEN << >> ELSE Append(Magnitude(n \div 256), n % 256)

\* the Python int of a small integer
PyInt(n) == [neg |-> n < 0, mag |-> Magnitude(IF n < 0 THEN 0 - n ELSE n)]

\* true when the magnitude is below 2^31
FitsInt(x) == Len(x.mag) < 4 \/ (Len(x.mag) = 4 /\ x.mag[1] < 128)

RECURSIVE MagnitudeValue(_)
MagnitudeValue(m) ==
    IF Len(m) = 0 THEN 0
    ELSE MagnitudeValue(SubSeq(m, 1, Len(m) - 1)) * 256 + m[Len(m)]

\* the small integer of a Python int whose magnitude is below 2^31
IntValue(x) == IF x.neg THEN 0 - MagnitudeValue(x.mag) ELSE MagnitudeValue(x.mag)

RECURSIVE DecDigits(_)
DecDigits(m) ==
    LET rest == StripZeros(DivSmall(m, 10))
    IN  IF Len(rest) = 0 THEN << 48 + ModSmall(m, 10) >>
        ELSE Append(DecDigits(rest), 48 + ModSmall(m, 10))

\* str(int)
Str(x) == IF x.neg THEN << Dash >> \o DecDigits(x.mag) ELSE DecDigits(x.mag)

\* x > n and x < n for a Python int x and a small integer n
Greater(x, n) == IF FitsInt(x) THEN IntValue(x) > n ELSE ~x.neg
Less(x, n) == IF FitsInt(x) THEN IntValue(x) < n ELSE x.neg

\* ------------------------------------------------------------------------
\* Alphabet codec
\* ------------------------------------------------------------------------
RECURSIVE EncodeLoop(_, _, _)
EncodeLoop(value, base, n) ==
    IF n = 0 THEN << >>
    ELSE << LICENSE_ALPHABET[ModSmall(value, base) + 1] >>
         \o EncodeLoop(DivSmall(value, base), base, n - 1)

RECURSIVE EncodeWhile(_, _)
EncodeWhile(value, base) ==
    IF \A i \in 1..Len(value) : value[i] = 0 THEN << >>
    ELSE << LICENSE_ALPHABET[ModSmall(value, base) + 1] >>
         \o EncodeWhile(DivSmall(value, base), base)

\* encode_to_alphabet with the loop "while value:" and no padding, and
\* without the cut to length digits
encode_to_alphabet_while(data, length) ==
    Reversed(EncodeWhile(data, Len(LICENSE_ALPHABET)))

\* encode_to_alphabet without the reversal of the digits
encode_to_alphabet_unreversed(data, length) ==
    LET base   == Len(LICENSE_ALPHABET)
        result == EncodeLoop(data, base, length)
    IN  Rjust(result, length, LICENSE_ALPHABET[1])

encode_to_alphabet(data, length) ==
    LET base   == Len(LICENSE_ALPHABET)
        result == EncodeLoop(data, base, length)
    IN  Rjust(Reversed(result), length, LICENSE_ALPHABET[1])

\* value * m + a for a small multiplier m and a small addend a
RECURSIVE MulAddFrom(_, _, _, _)
MulAddFrom(bs, i, m, carry) ==
    IF i = 0 THEN (IF carry = 0 THEN << >> ELSE << carry >>)
    ELSE LET cur == bs[i] * m + carry
         IN  Append(MulAddFrom(bs, i - 1, m, cur \div 256), cur % 256)

MulAdd(bs, m, a) ==
    IF Len(bs) = 0 THEN (IF a = 0 THEN << >> ELSE << a >>)
    ELSE MulAddFrom(bs, Len(bs), m, a)

\* format(value, 'x') as a sequence of hex digit values: no leading zero
\* digit, and the single digit 0 for the value 0
HexDigits(value) ==
    LET nibbles == [i \in 1..(2 * Len(value)) |->
                       IF i % 2 = 1 THEN value[(i + 1) \div 2] \div 16
                       ELSE value[i \div 2] % 16]
        digits  == StripZeros(nibbles)
    IN  IF Len(digits) = 0 THEN << 0 >> ELSE digits

\* bytes.fromhex on a sequence of an even number of hex digit values
FromHex(h) == [i \in 1..(Len(h) \div 2) |-> 16 * h[2 * i - 1] + h[2 * i]]

RECURSIVE DecodeLoop(_, _, _, _)
DecodeLoop(s, base, i, value) ==
    IF i > Len(s) THEN [ok |-> TRUE, val |-> value]
    ELSE LET pos == Find(LICENSE_ALPHABET, s[i])
         IN  IF pos = -1 THEN [ok |-> FALSE, exc |-> "ValueError"]
             ELSE DecodeLoop(s, base, i + 1, MulAdd(value, base, pos))

\* decode_from_alphabet reading the least significant digit first
decode_from_alphabet_unreversed(s) ==
    LET r == DecodeLoop(Reversed(s), Len(LICENSE_ALPHABET), 1, << >>)
    IN  IF ~r.ok THEN r
        ELSE LET hex0    == HexDigits(r.val)
                 hex_str == IF Len(hex0) % 2 = 1 THEN << 0 >> \o hex0 ELSE hex0
             IN  [ok |-> TRUE, val |-> FromHex(hex_str)]

\* decode_from_alphabet that skips a character outside the alphabet
\* ("continue" in place of "raise")
decode_from_alphabet_lenient(s) ==
    LET known == SelectSeq(s, LAMBDA c : Find(LICENSE_ALPHABET, c) # -1)
        r     == DecodeLoop(known, Len(LICENSE_ALPHABET), 1, << >>)
        hex0    == HexDigits(r.val)
        hex_str == IF Len(hex0) % 2 = 1 THEN << 0 >> \o hex0 ELSE hex0
    IN  [ok |-> TRUE, val |-> FromHex(hex_str)]

decode_from_alphabet(s) ==
    LET r == DecodeLoop(s, Len(LICENSE_ALPHABET), 1, << >>)
    IN  IF ~r.ok THEN r
        ELSE LET hex0    == HexDigits(r.val)
                 hex_str == IF Len(hex0) % 2 = 1 THEN << 0 >> \o hex0 ELSE hex0
             IN  [ok |-> TRUE, val |-> FromHex(hex_str)]

\* ------------------------------------------------------------------------
\* Library primitives (stand-ins, see the module comment)
\* ------------------------------------------------------------------------
RECURSIVE Absorb(_, _, _)
\* The map h -> a * h + b (mod 46337) that absorbing m[lo..hi] one byte
\* at a time, h -> 31 * h + byte + 1, applies to the state
Absorb(m, lo, hi) ==
    IF lo = hi THEN [a |-> 31, b |-> m[lo] + 1]
    ELSE LET mid   == (lo + hi) \div 2
             left  == Absorb(m, lo, mid)
             right == Absorb(m, mid + 1, hi)
         IN  [a |-> (left.a * right.a) % 46337,
              b |-> (right.a * left.b + right.b) % 46337]

\* hashlib.sha256(m).digest(): 32 bytes, a deterministic function of m.
\* The first two bytes carry the whole internal state, so two messages
\* with different states differ in the first ten bytes of their digests.
Sha256(m) ==
    LET f == IF Len(m) = 0 THEN [a |-> 1, b |-> 0] ELSE Absorb(m, 1, Len(m))
        h == (f.a * 7 + f.b) % 46337
    IN  [i \in 1..32 |->
            IF i = 1 THEN h % 256
            ELSE IF i = 2 THEN h \div 256
            ELSE ((h * (i + 6)) % 46337) % 256]

\* hmac.new(key, msg, hashlib.sha256).digest(), kept as the unevaluated
\* term over key and message: a collision-free keyed function.
HmacSha256(key, msg) == << 92 >> \o key \o << 54 >> \o msg

\* struct.pack('>I', x): four big-endian bytes, struct.error unless
\* 0 <= x <= 4294967295
PackUInt32(x) ==
    IF (x.neg /\ Len(x.mag) > 0) \/ Len(x.mag) > 4
    THEN [ok |-> FALSE, exc |-> "struct.error"]
    ELSE [ok |-> TRUE, val |-> Rjust(x.mag, 4, 0)]

\* struct.unpack('>I', b)[0] for four bytes b
UnpackUInt32(b) == [neg |-> FALSE, mag |-> StripZeros(b)]

\* ------------------------------------------------------------------------
\* Server secrets
\* ------------------------------------------------------------------------
\* '7f3a9c2e8b4d6f1a5c7e9b3d5f8a2c4e6b8d1f3a5c7e9b2d4f6a8c1e3b5d7f9a2c'
DEFAULT_MASTER_SECRET ==
    << 55, 102, 51, 97, 57, 99, 50, 101, 56, 98, 52, 100, 54, 102, 49, 97,
       53, 99, 55, 101, 57, 98, 51, 100, 53, 102, 56, 97, 50, 99, 52, 101,
       54, 98, 56, 100, 49, 102, 51, 97, 53, 99, 55, 101, 57, 98, 50, 100,
       52, 102, 54, 97, 56, 99, 49, 101, 51, 98, 53, 100, 55, 102, 57, 97,
       50, 99 >>

\* '9e2b4f7a1c5d8e3b6f9a2c5e8b1d4f7a3c6e9b2d5f8a1c4e7b9d3f6a8c2e5b7d'
DEFAULT_VALIDATION_SECRET ==
    << 57, 101, 50, 98, 52, 102, 55, 97, 49, 99, 53, 100, 56, 101, 51, 98,
       54, 102, 57, 97, 50, 99, 53, 101, 56, 98, 49, 100, 52, 102, 55, 97,
       51, 99, 54, 101, 57, 98, 50, 100, 53, 102, 56, 97, 49, 99, 52, 101,
       55, 98, 57, 100, 51, 102, 54, 97, 56, 99, 50, 101, 53, 98, 55, 100 >>

\* '4a7c9e2b5d8f1a3c6e9b2d5f8a1c4e7b9d3f6a8c2e5b7d9f2a4c6e8b1d3f5a7c'
DEFAULT_TIMESTAMP_SECRET ==
    << 52, 97, 55, 99, 57, 101, 50, 98, 53, 100, 56, 102, 49, 97, 51, 99,
       54, 101, 57, 98, 50, 100, 53, 102, 56, 97, 49, 99, 52, 101, 55, 98,
       57, 100, 51, 102, 54, 97, 56, 99, 50, 101, 53, 98, 55, 100, 57, 102,
       50, 97, 52, 99, 54, 101, 56, 98, 49, 100, 51, 102, 53, 97, 55, 99 >>

EnvNames == {"YURUCODE_MASTER_SECRET", "YURUCODE_VALIDATION_SECRET",
             "YURUCODE_TIMESTAMP_SECRET"}

\* the names as text
NameText ==
    [n \in EnvNames |->
        CASE n = "YURUCODE_MASTER_SECRET" ->
                << 89, 85, 82, 85, 67, 79, 68, 69, 95, 77, 65, 83, 84, 69, 82, 95, 83, 69, 67, 82, 69, 84 >>
          [] n = "YURUCODE_VALIDATION_SECRET" ->
                << 89, 85, 82, 85, 67, 79, 68, 69, 95, 86, 65, 76, 73, 68, 65, 84, 73, 79, 78, 95, 83, 69, 67, 82, 69, 84 >>
          [] OTHER ->
                << 89, 85, 82, 85, 67, 79, 68, 69, 95, 84, 73, 77, 69, 83, 84, 65, 77, 80, 95, 83, 69, 67, 82, 69, 84 >>]

\* str.strip(): the whitespace characters below 128
Whitespace == {9, 10, 11, 12, 13, 28, 29, 30, 31, 32}

RECURSIVE LStrip(_)
LStrip(s) == IF Len(s) > 0 /\ s[1] \in Whitespace THEN LStrip(Tail(s)) ELSE s

Strip(s) == Reversed(LStrip(Reversed(LStrip(s))))

\* line.split('=', 1) of a line that contains '='
SplitOnce(line, sep) ==
    LET i == Find(line, sep)
    IN  << SubSeq(line, 1, i), SubSeq(line, i + 2, Len(line)) >>

\* os.environ.setdefault(key, value) in place of the assignment
SetEnv_setdefault(environ, key, value) ==
    IF Len(key) = 0 THEN [ok |-> FALSE, exc |-> "OSError"]
    ELSE [ok |-> TRUE,
          val |-> [n \in EnvNames |->
                      IF NameText[n] = key /\ ~environ[n].set
                      THEN [set |-> TRUE, value |-> value]
                      ELSE environ[n]]]

\* os.environ[key] = value, for the three names the secrets are read from;
\* an empty key makes putenv fail
SetEnv(environ, key, value) ==
    IF Len(key) = 0 THEN [ok |-> FALSE, exc |-> "OSError"]
    ELSE [ok |-> TRUE,
          val |-> [n \in EnvNames |->
                      IF NameText[n] = key
                      THEN [set |-> TRUE, value |-> value]
                      ELSE environ[n]]]

RECURSIVE LoadLines(_, _, _)
\* the loop over the lines of the file
LoadLines(environ, lines, i) ==
    IF i > Len(lines) THEN [ok |-> TRUE, val |-> environ]
    ELSE LET line == Strip(lines[i])
         IN  IF Len(line) > 0 /\ line[1] # 35 /\ Find(line, 61) # -1
             THEN LET kv  == SplitOnce(line, 61)
                      set == SetEnv(environ, Strip(kv[1]), Strip(kv[2]))
                  IN  IF ~set.ok THEN set
                      ELSE LoadLines(set.val, lines, i + 1)
             ELSE LoadLines(environ, lines, i + 1)

\* load_env_secrets(): os.environ after the lines of the file
\* yurucode.com/.env.secret, when it exists, have been applied to it
load_env_secrets(environ, env_file) ==
    IF env_file.exists THEN LoadLines(environ, env_file.lines, 1)
    ELSE [ok |-> TRUE, val |-> environ]

\* os.getenv(name, default); an environment maps each name to a record
\* telling whether the variable is set and, if so, its value
Getenv(environ, name, default) ==
    IF environ[name].set THEN environ[name].value ELSE default

\* The three module globals, read once when the module is loaded
LoadSecrets(environ) ==
    [ master     |-> Getenv(environ, "YURUCODE_MASTER_SECRET",
                            DEFAULT_MASTER_SECRET),
      validation |-> Getenv(environ, "YURUCODE_VALIDATION_SECRET",
                            DEFAULT_VALIDATION_SECRET),
      timestamp  |-> Getenv(environ, "YURUCODE_TIMESTAMP_SECRET",
                            DEFAULT_TIMESTAMP_SECRET) ]

\* ------------------------------------------------------------------------
\* Signature engine
\* ------------------------------------------------------------------------
\* create_license_signature with the second HMAC keyed by the default
\* literal instead of the loaded TIMESTAMP_SECRET
create_license_signature_literal_key(payload_segments, timestamp, secrets) ==
    LET data_to_sign == Join(<< Pipe >>,
                             << LICENSE_VERSION,
                                Join(<< Dash >>, payload_segments),
                                Str(timestamp),
                                secrets.validation >>)
        hmac1 == HmacSha256(secrets.master, data_to_sign)
        hmac2 == HmacSha256(DEFAULT_TIMESTAMP_SECRET,
                            hmac1 \o Str(timestamp))
    IN  Sha256(hmac1 \o hmac2)

\* secrets is the record of the three module globals
\* MASTER_SECRET, VALIDATION_SECRET, TIMESTAMP_SECRET
create_license_signature(payload_segments, timestamp, secrets) ==
    LET data_to_sign == Join(<< Pipe >>,
                             << LICENSE_VERSION,
                                Join(<< Dash >>, payload_segments),
                                Str(timestamp),
                                secrets.validation >>)
        hmac1 == HmacSha256(secrets.master, data_to_sign)
        hmac2 == HmacSha256(secrets.timestamp, hmac1 \o Str(timestamp))
    IN  Sha256(hmac1 \o hmac2)

\* ------------------------------------------------------------------------
\* Key generator
\* ------------------------------------------------------------------------
\* generate_license_key with the first segment taken from payload_data[0:3]
generate_license_key_short_chunk(random_payload, clock, secrets) ==
    LET timestamp == clock
        packed    == PackUInt32(timestamp)
    IN  IF ~packed.ok THEN packed
        ELSE
        LET timestamp_bytes == packed.val
            payload_data    == random_payload \o timestamp_bytes
            seg1 == encode_to_alphabet(Slice(payload_data, 0, 3), 5)
            seg2 == encode_to_alphabet(Slice(payload_data, 6, 11), 5)
            seg3 == encode_to_alphabet(Slice(payload_data, 11, 16), 5)
            payload_segments == << seg1, seg2, seg3 >>
            signature == create_license_signature(payload_segments,
                                                  timestamp, secrets)
            seg4 == encode_to_alphabet(Slice(signature, 0, 5), 5)
            seg5 == encode_to_alphabet(Slice(signature, 5, 10), 5)
        IN  [ok |-> TRUE,
             val |-> Join(<< Dash >>, << seg1, seg2, seg3, seg4, seg5 >>)]

\* random_payload is the result of secrets.token_bytes(12) and clock the
\* result of int(time.time())
generate_license_key(random_payload, clock, secrets) ==
    LET timestamp == clock
        packed    == PackUInt32(timestamp)
    IN  IF ~packed.ok THEN packed
        ELSE
        LET timestamp_bytes == packed.val
            payload_data    == random_payload \o timestamp_bytes
            seg1 == encode_to_alphabet(Slice(payload_data, 0, 6), 5)
            seg2 == encode_to_alphabet(Slice(payload_data, 6, 11), 5)
            seg3 == encode_to_alphabet(Slice(payload_data, 11, 16), 5)
            payload_segments == << seg1, seg2, seg3 >>
            signature == create_license_signature(payload_segments,
                                                  timestamp, secrets)
            seg4 == encode_to_alphabet(Slice(signature, 0, 5), 5)
            seg5 == encode_to_alphabet(Slice(signature, 5, 10), 5)
        IN  [ok |-> TRUE,
             val |-> Join(<< Dash >>, << seg1, seg2, seg3, seg4, seg5 >>)]

RECURSIVE generate_batch(_, _, _)
\* count is the length of randoms, the results of secrets.token_bytes(12) in
\* the successive iterations; clock is the reading of int(time.time()) in
\* each of them (the iterations sleep one millisecond)
generate_batch(randoms, clock, secrets) ==
    IF Len(randoms) = 0 THEN [ok |-> TRUE, val |-> << >>]
    ELSE LET key == generate_license_key(Head(randoms), clock, secrets)
         IN  IF ~key.ok THEN key
             ELSE LET rest == generate_batch(Tail(randoms), clock, secrets)
                  IN  IF ~rest.ok THEN rest
                      ELSE [ok |-> TRUE, val |-> << key.val >> \o rest.val]

\* ------------------------------------------------------------------------
\* Key validator
\* ------------------------------------------------------------------------
AlphabetChars == {LICENSE_ALPHABET[i] : i \in 1..Len(LICENSE_ALPHABET)}

\* re.match('^[ALPHABET]{5}(-[ALPHABET]{5}){4}$', key): five groups of five
\* alphabet characters separated by '-'; '$' matches at the end of the
\* string and also just before a newline that ends the string
PatternMatches(key) ==
    LET n == IF Len(key) = 30 /\ key[30] = 10 THEN 29 ELSE Len(key)
    IN  /\ n = 29
        /\ \A i \in 1..29 :
              IF i % 6 = 0 THEN key[i] = Dash ELSE key[i] \in AlphabetChars

\* validate_license_format without the loop that decodes each segment
validate_license_format_no_decode(key) ==
    IF ~PatternMatches(key) THEN [ok |-> TRUE, val |-> FALSE]
    ELSE IF Len(Split(key, Dash)) # 5 THEN [ok |-> TRUE, val |-> FALSE]
    ELSE [ok |-> TRUE, val |-> TRUE]

\* validate_license_format with the decoding loop outside any try/except
validate_license_format_unguarded(key) ==
    IF ~PatternMatches(key) THEN [ok |-> TRUE, val |-> FALSE]
    ELSE LET segments == Split(key, Dash)
         IN  IF Len(segments) # 5 THEN [ok |-> TRUE, val |-> FALSE]
             ELSE IF \E i \in 1..Len(segments) :
                        ~decode_from_alphabet(segments[i]).ok
                  THEN [ok |-> FALSE, exc |-> "ValueError"]
                  ELSE [ok |-> TRUE, val |-> TRUE]

validate_license_format(key) ==
    IF ~PatternMatches(key) THEN [ok |-> TRUE, val |-> FALSE]
    ELSE LET segments == Split(key, Dash)
         IN  IF Len(segments) # 5 THEN [ok |-> TRUE, val |-> FALSE]
             ELSE IF \E i \in 1..Len(segments) :
                        ~decode_from_alphabet(segments[i]).ok
                  THEN [ok |-> TRUE, val |-> FALSE]
                  ELSE [ok |-> TRUE, val |-> TRUE]

RECURSIVE DecodeConcat(_, _, _)
\* the loops "for i in range(a, b): acc += decode_from_alphabet(segments[i])"
\* (0-based a, b); the first failing step raises
DecodeConcat(segments, a, b) ==
    IF a >= b THEN [ok |-> TRUE, val |-> << >>]
    ELSE IF a + 1 > Len(segments) THEN [ok |-> FALSE, exc |-> "IndexError"]
    ELSE LET decoded == decode_from_alphabet(segments[a + 1])
         IN  IF ~decoded.ok THEN decoded
             ELSE LET rest == DecodeConcat(segments, a + 1, b)
                  IN  IF ~rest.ok THEN rest
                      ELSE [ok |-> TRUE, val |-> decoded.val \o rest.val]

\* the payload padded on the left, as rjust does
PayloadBytes_left_padded(segments) ==
    LET r == DecodeConcat(segments, 0, 3)
    IN  IF ~r.ok THEN r
        ELSE [ok |-> TRUE,
              val |-> IF Len(r.val) < 16 THEN Rjust(r.val, 16, 0) ELSE r.val]

\* payload_bytes after decoding segments 1 to 3 and padding to 16 bytes
PayloadBytes(segments) ==
    LET r == DecodeConcat(segments, 0, 3)
    IN  IF ~r.ok THEN r
        ELSE [ok |-> TRUE,
              val |-> IF Len(r.val) < 16 THEN Ljust(r.val, 16, 0) ELSE r.val]

\* the first four bytes of the payload in place of the last four
TimestampBytes_first(payload_bytes) == Slice(payload_bytes, 0, 4)

\* timestamp_bytes = payload_bytes[-4:]
TimestampBytes(payload_bytes) == LastN(payload_bytes, 4)

\* the provided signature padded with FF bytes in place of 00
ProvidedSignature_padded_ff(segments) ==
    LET r == DecodeConcat(segments, 3, 5)
    IN  IF ~r.ok THEN r
        ELSE [ok |-> TRUE,
              val |-> IF Len(r.val) < 10 THEN Ljust(r.val, 10, 255) ELSE r.val]

\* provided_signature after decoding segments 4 and 5 and padding to 10 bytes
ProvidedSignature(segments) ==
    LET r == DecodeConcat(segments, 3, 5)
    IN  IF ~r.ok THEN r
        ELSE [ok |-> TRUE,
              val |-> IF Len(r.val) < 10 THEN Ljust(r.val, 10, 0) ELSE r.val]

TimestampInFuture(timestamp, current_time) ==
    Greater(timestamp, current_time + 86400)

\* the age test with <= in place of <
LicenseTooOld_inclusive(timestamp, current_time) ==
    ~Greater(timestamp, current_time - (365 * 86400 * 2))

LicenseTooOld(timestamp, current_time) ==
    Less(timestamp, current_time - (365 * 86400 * 2))

\* the comparison with == in place of !=
SignaturesDiffer_inverted(expected_signature, provided_signature) ==
    Slice(expected_signature, 0, 10) = Slice(provided_signature, 0, 10)

SignaturesDiffer(expected_signature, provided_signature) ==
    Slice(expected_signature, 0, 10) # Slice(provided_signature, 0, 10)

\* the quotient rounded toward zero, as C's integer division does
AgeDays_truncating(timestamp, current_time) ==
    LET d == current_time - IntValue(timestamp)
    IN  IF d >= 0 THEN d \div 86400 ELSE 0 - ((0 - d) \div 86400)

\* (current_time - timestamp) // 86400: Python's // rounds toward minus
\* infinity
AgeDays(timestamp, current_time) ==
    (current_time - IntValue(timestamp)) \div 86400

Invalid(reason) == [ok |-> TRUE, val |-> [valid |-> FALSE, error |-> reason]]

\* the handler "except Exception as e"
ValidationError(exc) ==
    Invalid(IF exc = "ValueError" THEN "Validation error: Invalid character"
            ELSE "Validation error: list index out of range")

\* current_time is the result of int(time.time())
validate_license_signature(key, current_time, secrets) ==
    LET fmt == validate_license_format(key)
    IN  IF ~fmt.ok THEN fmt
        ELSE IF ~fmt.val THEN Invalid("Invalid format")
        ELSE
        LET segments == Split(Upper(key), Dash)
            payload  == PayloadBytes(segments)
        IN  IF ~payload.ok THEN ValidationError(payload.exc)
            ELSE
            LET timestamp_bytes == TimestampBytes(payload.val)
            IN  IF Len(timestamp_bytes) # 4
                THEN Invalid("Invalid timestamp structure")
                ELSE
                LET timestamp == UnpackUInt32(timestamp_bytes)
                IN  IF TimestampInFuture(timestamp, current_time)
                    THEN Invalid("Timestamp in future")
                    ELSE IF LicenseTooOld(timestamp, current_time)
                    THEN Invalid("License too old")
                    ELSE
                    LET expected_signature ==
                            create_license_signature(Slice(segments, 0, 3),
                                                     timestamp, secrets)
                        provided == ProvidedSignature(segments)
                    IN  IF ~provided.ok THEN ValidationError(provided.exc)
                        ELSE IF SignaturesDiffer(expected_signature,
                                                 provided.val)
                        THEN Invalid("Invalid signature")
                        ELSE [ok |-> TRUE,
                              val |-> [valid |-> TRUE,
                                       timestamp |-> IntValue(timestamp),
                                       age_days |->
                                         AgeDays(timestamp, current_time)]]

\* ------------------------------------------------------------------------
\* Inputs of the model
\* ------------------------------------------------------------------------
\* Number of distinct results of secrets.token_bytes(12) that are tried
NumPayloads == 2

TokenBytes(i) == [j \in 1..12 |-> (i * 53 + j * 29) % 256]

\* A result of secrets.token_bytes(12) for which, at clock 0 and under the
\* default secrets, the first ten bytes of the signature are zero: the one
\* signature prefix whose two encoded segments decode to itself
ZeroSignaturePayload == << 1, 2, 3, 4, 212, 62, 7, 8, 9, 10, 11, 12 >>

Payloads == {TokenBytes(i) : i \in 1..NumPayloads} \cup {ZeroSignaturePayload}

\* Largest count given to generate_batch
MaxBatch == 2

\* Results of secrets.token_bytes(12) in the count iterations of a batch:
\* the payloads in turn, from each starting point
PayloadAt(k) ==
    IF k % (NumPayloads + 1) = 0 THEN ZeroSignaturePayload
    ELSE TokenBytes(k % (NumPayloads + 1))

BatchRandoms(count) ==
    {[i \in 1..count |-> PayloadAt(k + i)] : k \in 0..NumPayloads}

MaxAge == 365 * 86400 * 2
MaxSkew == 86400

\* 2^32 - 1 and 2^32, the last second of 2106-02-07 06:28:15 UTC and the next
LastUInt32 == [neg |-> FALSE, mag |-> << 255, 255, 255, 255 >>]
FirstBeyondUInt32 == [neg |-> FALSE, mag |-> << 1, 0, 0, 0, 0 >>]

\* Readings of int(time.time()) at generation; -1 is a clock set before
\* the epoch
GenerateClocks ==
    {PyInt(-1), PyInt(0), PyInt(1), PyInt(1700000000), LastUInt32, FirstBeyondUInt32}

\* Readings of int(time.time()) at validation (all below 2^31) when the
\* last key was issued at issued
ValidateClocks(issued) ==
    {0 - MaxSkew - 1, 0 - MaxSkew, 0, MaxAge, MaxAge + 1, 1700000000}
    \cup (IF FitsInt(issued)
          THEN {IntValue(issued), IntValue(issued) + MaxAge,
                IntValue(issued) + MaxAge + 1}
          ELSE {})

\* 'alt-master', 'alt-validation', 'alt-timestamp'
OtherSecret ==
    [n \in EnvNames |->
        CASE n = "YURUCODE_MASTER_SECRET" ->
                << 97, 108, 116, 45, 109, 97, 115, 116, 101, 114 >>
          [] n = "YURUCODE_VALIDATION_SECRET" ->
                << 97, 108, 116, 45, 118, 97, 108, 105, 100, 97, 116, 105,
                   111, 110 >>
          [] OTHER ->
                << 97, 108, 116, 45, 116, 105, 109, 101, 115, 116, 97, 109,
                   112 >>]

\* The process environment with none of the three variables
NoEnvironment == [n \in EnvNames |-> [set |-> FALSE, value |-> << >>]]

\* Process environments: no variable set, or one of them
Environments ==
    {[n \in EnvNames |->
        IF n \in given THEN [set |-> TRUE, value |-> OtherSecret[n]]
        ELSE [set |-> FALSE, value |-> << >>]] :
        given \in {{}} \cup {{n} : n \in EnvNames}}

\* Characters put in place of one character of a key:
\* 'Z' and '2' (in the alphabet), 'a' and '-' (outside it)
ReplacementChars == {90, 50, 97, 45}

Seg(c) == << c, c, c, c, c >>

\* 'AAAAA-BBBBB-CCCCC-DDDDD-EEEEE'
KnownInvalidKey == Join(<< Dash >>, << Seg(65), Seg(66), Seg(67), Seg(68), Seg(69) >>)

\* Strings given to the validator besides generated and modified keys
OtherInputs ==
    { KnownInvalidKey,
      << >>,
      Join(<< Dash >>, << Seg(65), Seg(66), Seg(67), Seg(68) >>),
      Join(<< Dash >>, << Seg(65), Seg(66), Seg(67), Seg(68), Seg(69), Seg(70) >>),
      Join(<< Dash >>, << Seg(65), Seg(66), Seg(67), Seg(68), << 69, 69, 69, 69 >> >>),
      Join(<< Dash >>, << Seg(65), Seg(66), Seg(67), Seg(68), << 69, 69, 69, 69, 69, 69 >> >>),
      Join(<< >>, << Seg(65), Seg(66), Seg(67), Seg(68), Seg(69) >>),
      Join(<< Dash >>, << Seg(97), Seg(98), Seg(99), Seg(100), Seg(101) >>),
      Join(<< Dash >>, << Seg(73), Seg(79), Seg(48), Seg(49), Seg(69) >>),
      KnownInvalidKey \o << 10 >>,
      KnownInvalidKey \o << 10, 10 >>,
      << 10 >> \o KnownInvalidKey,
      KnownInvalidKey \o << 32 >> }

\* Byte strings given to encode_to_alphabet: up to MaxDataLen bytes drawn
\* from ByteValues; they include 0 (empty and all-zero strings),
\* 32^5 - 1 = 0x01FFFFFF and values of more than 25 bits
MaxDataLen == 6
ByteValues == {0, 1, 90, 255}

RECURSIVE SeqsUpTo(_, _)
SeqsUpTo(S, n) ==
    IF n = 0 THEN {<< >>}
    ELSE LET shorter == SeqsUpTo(S, n - 1)
         IN  shorter \cup {Append(s, x) : s \in shorter, x \in S}

CodecData == SeqsUpTo(ByteValues, MaxDataLen)

\* Values of the parameter length of encode_to_alphabet
MaxLength == 7

\* Strings given to decode_from_alphabet besides encoded segments: up to
\* MaxTextLen characters among '2', 'A', 'Z' (in the alphabet) and
\* 'a', 'I', '-' (outside it)
MaxTextLen == 4
TextChars == {50, 65, 90, 97, 73, 45}
CodecTexts == SeqsUpTo(TextChars, MaxTextLen)

\* The file yurucode.com/.env.secret: absent, or up to MaxFileLines lines
\* among
\*   'YURUCODE_MASTER_SECRET=file-master\n'
\*   '#YURUCODE_VALIDATION_SECRET=x\n'
\*   '  YURUCODE_TIMESTAMP_SECRET = a=b  \n'
\*   'YURUCODE_MASTER_SECRET=\n'
\*   'OTHER=1\n', 'NOEQUALS\n', '\n', '=oops\n'
MaxFileLines == 2

FileMaster == << 102, 105, 108, 101, 45, 109, 97, 115, 116, 101, 114 >>

FileLines ==
    { NameText["YURUCODE_MASTER_SECRET"] \o << 61 >> \o FileMaster \o << 10 >>,
      << 35 >> \o NameText["YURUCODE_VALIDATION_SECRET"] \o << 61, 120, 10 >>,
      << 32, 32 >> \o NameText["YURUCODE_TIMESTAMP_SECRET"]
          \o << 32, 61, 32, 97, 61, 98, 32, 32, 10 >>,
      NameText["YURUCODE_MASTER_SECRET"] \o << 61, 10 >>,
      << 79, 84, 72, 69, 82, 61, 49, 10 >>,
      << 78, 79, 69, 81, 85, 65, 76, 83, 10 >>,
      << 10 >>,
      << 61, 111, 111, 112, 115, 10 >> }

NoFile == [exists |-> FALSE, lines |-> << >>]

EnvFiles ==
    {NoFile} \cup {[exists |-> TRUE, lines |-> l] :
                      l \in SeqsUpTo(FileLines, MaxFileLines)}

\* Process environments at the start: each variable unset, or set to
\* another secret, to the text of its own default or to the empty string
DefaultSecret ==
    [n \in EnvNames |->
        CASE n = "YURUCODE_MASTER_SECRET" -> DEFAULT_MASTER_SECRET
          [] n = "YURUCODE_VALIDATION_SECRET" -> DEFAULT_VALIDATION_SECRET
          [] OTHER -> DEFAULT_TIMESTAMP_SECRET]

StartEnvironments ==
    {[n \in EnvNames |->
        CASE choice[n] = "unset" -> [set |-> FALSE, value |-> << >>]
          [] choice[n] = "other" -> [set |-> TRUE, value |-> OtherSecret[n]]
          [] choice[n] = "default" -> [set |-> TRUE, value |-> DefaultSecret[n]]
          [] OTHER -> [set |-> TRUE, value |-> << >>]] :
        choice \in [EnvNames -> {"unset", "other", "default", "empty"}]}

\* Number of threads that run calls concurrently
NumThreads == 2
Threads == 1..NumThreads

\* the key generate_license_key() returns for ZeroSignaturePayload at clock
\* 0 under the default secrets
ValidKeyAtZero ==
    generate_license_key(ZeroSignaturePayload, PyInt(0),
                         LoadSecrets(NoEnvironment)).val

\* Calls started in a thread: the operation, its argument, the result of
\* secrets.token_bytes(12) and the reading of int(time.time())
ThreadClocks == {PyInt(0), PyInt(1700000000)}

ThreadCalls ==
    {[op |-> "validate", input |-> k, random |-> << >>, clock |-> t] :
        k \in {ValidKeyAtZero, KnownInvalidKey \o << 10 >>},
        t \in ThreadClocks}
    \cup
    {[op |-> "generate", input |-> << >>, random |-> ZeroSignaturePayload,
      clock |-> PyInt(0)]}

\* Keys given to a validation that is followed check by check: every key
\* of five segments among '22222' (decodes to the byte 00), '222Z2' (03 E0)
\* and 'ZZZZZ' (01 FF FF FF), the key that is valid at clock 0, and the
\* other inputs
SegmentChoices == {Seg(50), << 50, 50, 50, 90, 50 >>, Seg(90)}

FormatKeys ==
    {Join(<< Dash >>, segs) : segs \in [1..5 -> SegmentChoices]}

KeyInputs == FormatKeys \cup {ValidKeyAtZero} \cup OtherInputs

\* Readings of int(time.time()) in such a validation: around the epoch,
\* around one day, around the two years, and a present-day one
KeyClocks ==
    {0 - MaxSkew - 1, 0 - MaxSkew, -1, 0, 1, MaxSkew - 1, MaxSkew,
     MaxAge - 1, MaxAge, MaxAge + 1, 1700000000}

\* ------------------------------------------------------------------------
\* State
\* ------------------------------------------------------------------------
VARIABLES
    environ,   \* os.environ when the module is loaded
    secrets,   \* MASTER_SECRET, VALIDATION_SECRET, TIMESTAMP_SECRET
    gen,       \* the last call of generate_license_key: inputs and outcome
    val,       \* the last call of validate_license_signature since then
    codec,     \* a use of the alphabet codec on its own
    prev,      \* history: an earlier call of validate_license_signature
    thr,       \* the calls running in concurrent threads, with their locals
    cli,       \* one run of the command line: arguments, output, exit code
    load,      \* the load of the module: process environment and file
    chk        \* a validation followed check by check

vars == << environ, secrets, gen, val, codec, prev, thr, cli, load, chk >>

\* the variables of the uses of single functions, of the threads, of the
\* command line and of the module load
aux == << codec, thr, cli, load, chk >>

NoCall == [ok |-> FALSE, exc |-> "not called"]

NoGen == [random |-> << >>, clock |-> PyInt(0), out |-> NoCall]

NoVal == [source |-> "none", pos |-> 0, input |-> << >>, now |-> 0,
          out |-> NoCall]

\* a thread that runs no call; read holds the values of the three globals
\* that the running call has read so far
NoRead == [master |-> << >>, validation |-> << >>, timestamp |-> << >>]

Idle == [pc |-> "idle", op |-> "none", input |-> << >>, random |-> << >>,
         clock |-> PyInt(0), read |-> NoRead, out |-> NoCall]

\* the module is loaded, from the environment it has now and no file
Loaded(environment) ==
    [pc |-> "loaded", procenv |-> environment, file |-> NoFile]

\* no command line run
NoCli == [pc |-> "none", value |-> [given |-> FALSE, text |-> << >>],
          now |-> 0, stdout |-> "utf-8", status |-> "", error |-> "",
          exit |-> 0]

NoPrev == [call |-> NoVal, secrets |-> << >>]

\* no validation is followed; trail lists the checks the call has made
NoCheck == [pc |-> "idle", input |-> << >>, now |-> 0, trail |-> << >>,
            out |-> NoCall]

NoCodec == [pc |-> "done", encoded |-> FALSE, data |-> << >>, length |-> 0,
            text |-> << >>, decoded |-> NoCall]

Init ==
    /\ environ \in Environments
    /\ secrets = LoadSecrets(environ)
    /\ gen = NoGen
    /\ val = NoVal
    /\ codec = NoCodec
    /\ prev = NoPrev
    /\ thr = [i \in Threads |-> Idle]
    /\ cli = NoCli
    /\ load = Loaded(environ)
    /\ chk = NoCheck

\* generate_license_key() that afterwards holds the default literals in
\* the three globals
Generate_resetting_secrets ==
    /\ val = NoVal
    /\ \E r \in Payloads, t \in GenerateClocks :
        /\ gen' = [random |-> r, clock |-> t,
                   out |-> generate_license_key(r, t, secrets)]
        /\ val' = NoVal
        /\ secrets' = LoadSecrets(NoEnvironment)
        /\ UNCHANGED << environ, aux, prev >>

\* generate_license_key()
Generate ==
    /\ val = NoVal
    /\ \E r \in Payloads, t \in GenerateClocks :
        /\ gen' = [random |-> r, clock |-> t,
                   out |-> generate_license_key(r, t, secrets)]
        /\ val' = NoVal
        /\ UNCHANGED << environ, secrets, aux, prev >>

\* generate_batch(count); the list of keys is printed and not kept, gen
\* holds the last call of generate_license_key that the batch made
GenerateBatch ==
    /\ val = NoVal
    /\ \E count \in 0..MaxBatch, t \in GenerateClocks :
        \E randoms \in BatchRandoms(count) :
            LET out == generate_batch(randoms, t, secrets)
            IN  gen' = IF count = 0 THEN gen
                       ELSE IF out.ok
                       THEN [random |-> randoms[count], clock |-> t,
                             out |-> [ok |-> TRUE, val |-> out.val[count]]]
                       ELSE [random |-> randoms[1], clock |-> t, out |-> out]
    /\ val' = NoVal
    /\ UNCHANGED << environ, secrets, aux, prev >>

\* validate_license_signature that checks against the clock reading kept
\* by the last generate_license_key instead of reading the clock itself
Validated_kept_clock(source, pos, input, now) ==
    [source |-> source, pos |-> pos, input |-> input, now |-> now,
     out |-> validate_license_signature(
                 input,
                 IF gen.out.ok /\ FitsInt(gen.clock)
                 THEN IntValue(gen.clock) ELSE now,
                 secrets)]

Validated(source, pos, input, now) ==
    [source |-> source, pos |-> pos, input |-> input, now |-> now,
     out |-> validate_license_signature(input, now, secrets)]

\* validate_license_signature(key) on the key just generated
ValidateGenerated ==
    /\ val = NoVal
    /\ gen.out.ok
    /\ \E now \in ValidateClocks(gen.clock) :
          val' = Validated("generated", 0, gen.out.val, now)
    /\ UNCHANGED << environ, secrets, gen, aux, prev >>

\* validate_license_signature on the generated key with the character at
\* one position replaced by a different one
ValidateModified ==
    /\ val = NoVal
    /\ gen.out.ok
    /\ \E pos \in 1..Len(gen.out.val), c \in ReplacementChars,
          now \in ValidateClocks(gen.clock) :
          /\ c # gen.out.val[pos]
          /\ val' = Validated("modified", pos,
                              [gen.out.val EXCEPT ![pos] = c], now)
    /\ UNCHANGED << environ, secrets, gen, aux, prev >>

\* validate_license_signature on any other string
ValidateOther ==
    /\ val = NoVal
    /\ \E s \in OtherInputs, now \in ValidateClocks(gen.clock) :
          val' = Validated("other", 0, s, now)
    /\ UNCHANGED << environ, secrets, gen, aux, prev >>

\* the caller has used the result of the validation; the next call starts
Return ==
    /\ val # NoVal
    /\ val' = NoVal
    /\ UNCHANGED << environ, secrets, gen, aux, prev >>

\* the same, the finished call being kept in the history when the history
\* is still empty
Recordable(call) ==
    \/ call.input = KnownInvalidKey /\ call.now \in {0, 1700000000}
    \/ /\ call.source = "generated"
       /\ call.now = 0
       /\ gen.random = ZeroSignaturePayload
       /\ gen.clock = PyInt(0)

ReturnRecorded ==
    /\ val # NoVal
    /\ prev = NoPrev
    /\ Recordable(val)
    /\ prev' = [call |-> val, secrets |-> secrets]
    /\ val' = NoVal
    /\ UNCHANGED << environ, secrets, gen, aux >>

Next ==
    \/ Generate
    \/ GenerateBatch
    \/ ValidateGenerated
    \/ ValidateModified
    \/ ValidateOther
    \/ Return

Spec == Init /\ [][Next]_vars

\* Sequences of calls with one earlier validation kept for comparison
HistoryNext ==
    \/ Generate
    \/ GenerateBatch
    \/ ValidateGenerated
    \/ ValidateOther
    \/ Return
    \/ ReturnRecorded

HistorySpec == Init /\ [][HistoryNext]_vars

\* ------------------------------------------------------------------------
\* Calls in concurrent threads
\* ------------------------------------------------------------------------
\* A call is split where it reads a module global: create_license_signature
\* reads VALIDATION_SECRET, then MASTER_SECRET, then TIMESTAMP_SECRET, and
\* steps of other threads can run between any two of these reads.

\* the call gets as far as create_license_signature
ReachesSignature(call) ==
    IF call.op = "generate" THEN PackUInt32(call.clock).ok
    ELSE /\ validate_license_format(call.input).val
         /\ LET segments  == Split(Upper(call.input), Dash)
                 timestamp == UnpackUInt32(
                                  TimestampBytes(PayloadBytes(segments).val))
                 now       == IntValue(call.clock)
             IN  /\ ~TimestampInFuture(timestamp, now)
                 /\ ~LicenseTooOld(timestamp, now)

\* the timestamp local of the starting call kept in a module global that
\* every running call uses
Begun_shared_clock(i, call) ==
    [j \in Threads |->
        IF j = i
        THEN [pc |-> IF ReachesSignature(call) THEN "sign" ELSE "finish",
              op |-> call.op, input |-> call.input, random |-> call.random,
              clock |-> call.clock, read |-> NoRead, out |-> NoCall]
        ELSE [thr[j] EXCEPT !.clock = call.clock]]

\* the threads after thread i has started call: argument, random bytes and
\* clock reading are locals of the call
Begun(i, call) ==
    [thr EXCEPT ![i] =
        [pc |-> IF ReachesSignature(call) THEN "sign" ELSE "finish",
         op |-> call.op, input |-> call.input, random |-> call.random,
         clock |-> call.clock, read |-> NoRead, out |-> NoCall]]

\* a thread calls validate_license_signature(key) or generate_license_key()
Begin ==
    /\ \E i \in Threads, call \in ThreadCalls :
          /\ thr[i].pc \in {"idle", "done"}
          /\ thr' = Begun(i, call)
    /\ UNCHANGED << environ, secrets, gen, val, codec, prev, cli, load, chk >>

\* data_to_sign is built: VALIDATION_SECRET is read
ReadValidationSecret ==
    /\ \E i \in Threads :
          /\ thr[i].pc = "sign"
          /\ thr' = [thr EXCEPT ![i].pc = "hmac1",
                                ![i].read.validation = secrets.validation]
    /\ UNCHANGED << environ, secrets, gen, val, codec, prev, cli, load, chk >>

\* hmac1 is computed: MASTER_SECRET is read
ReadMasterSecret ==
    /\ \E i \in Threads :
          /\ thr[i].pc = "hmac1"
          /\ thr' = [thr EXCEPT ![i].pc = "hmac2",
                                ![i].read.master = secrets.master]
    /\ UNCHANGED << environ, secrets, gen, val, codec, prev, cli, load, chk >>

\* hmac2 is computed: TIMESTAMP_SECRET is read
ReadTimestampSecret ==
    /\ \E i \in Threads :
          /\ thr[i].pc = "hmac2"
          /\ thr' = [thr EXCEPT ![i].pc = "finish",
                                ![i].read.timestamp = secrets.timestamp]
    /\ UNCHANGED << environ, secrets, gen, val, codec, prev, cli, load, chk >>

\* the result the call of a thread returns, from its locals
ThreadResult(t) ==
    IF t.op = "generate"
    THEN generate_license_key(t.random, t.clock, t.read)
    ELSE validate_license_signature(t.input, IntValue(t.clock), t.read)

\* the call returns
Finish ==
    /\ \E i \in Threads :
          /\ thr[i].pc = "finish"
          /\ thr' = [thr EXCEPT ![i].pc = "done",
                                ![i].out = ThreadResult(thr[i])]
    /\ UNCHANGED << environ, secrets, gen, val, codec, prev, cli, load, chk >>

ThreadNext ==
    \/ Begin
    \/ ReadValidationSecret
    \/ ReadMasterSecret
    \/ ReadTimestampSecret
    \/ Finish

ThreadSpec == Init /\ [][ThreadNext]_vars

\* ------------------------------------------------------------------------
\* One validation, check by check
\* ------------------------------------------------------------------------
\* validate_license_signature(key) is followed through its checks: the
\* format check, the decoding of the payload with the two timestamp tests,
\* and the comparison of the signatures.  Each return statement ends the
\* call.

\* a return statement: the call ends with its result
Returning(c) ==
    [c EXCEPT !.pc = "done",
              !.out = validate_license_signature(c.input, c.now, secrets)]

\* "if not validate_license_format(key): return ..."
FormatChecked(c) ==
    IF validate_license_format(c.input).val
    THEN [c EXCEPT !.trail = Append(@, "format"), !.pc = "timestamp"]
    ELSE Returning([c EXCEPT !.trail = Append(@, "format")])

\* the timestamp tests passed over: the call goes on to the signature
TimestampChecked_skipped(c) ==
    [c EXCEPT !.trail = Append(@, "timestamp"), !.pc = "signature"]

\* the payload is decoded and the timestamp tested against the clock: the
\* call goes on to the signature when neither test returns
TimestampChecked(c) ==
    IF ReachesSignature([op |-> "validate", input |-> c.input,
                         clock |-> PyInt(c.now)])
    THEN [c EXCEPT !.trail = Append(@, "timestamp"), !.pc = "signature"]
    ELSE Returning([c EXCEPT !.trail = Append(@, "timestamp")])

\* the signature is recomputed and compared; the call returns either way
SignatureChecked(c) ==
    Returning([c EXCEPT !.trail = Append(@, "signature")])

\* validate_license_signature(key) is called
CallValidate ==
    /\ chk.pc = "idle"
    /\ \E key \in KeyInputs, now \in KeyClocks :
          chk' = [pc |-> "format", input |-> key, now |-> now,
                  trail |-> << >>, out |-> NoCall]
    /\ UNCHANGED << environ, secrets, gen, val, codec, prev, thr, cli, load >>

CheckFormat ==
    /\ chk.pc = "format"
    /\ chk' = FormatChecked(chk)
    /\ UNCHANGED << environ, secrets, gen, val, codec, prev, thr, cli, load >>

CheckTimestamp ==
    /\ chk.pc = "timestamp"
    /\ chk' = TimestampChecked(chk)
    /\ UNCHANGED << environ, secrets, gen, val, codec, prev, thr, cli, load >>

CheckSignature ==
    /\ chk.pc = "signature"
    /\ chk' = SignatureChecked(chk)
    /\ UNCHANGED << environ, secrets, gen, val, codec, prev, thr, cli, load >>

\* the caller has used the result; the next call starts
ReturnChecked ==
    /\ chk.pc = "done"
    /\ chk' = NoCheck
    /\ UNCHANGED << environ, secrets, gen, val, codec, prev, thr, cli, load >>

KeyNext ==
    \/ CallValidate
    \/ CheckFormat
    \/ CheckTimestamp
    \/ CheckSignature
    \/ ReturnChecked

KeySpec == Init /\ [][KeyNext]_vars

\* ------------------------------------------------------------------------
\* The command line: python keygen.py validate [value]
\* ------------------------------------------------------------------------
\* args.value after parse_args: None when the argument is absent, else the
\* argument string
CliValues ==
    {[given |-> FALSE, text |-> << >>]}
    \cup {[given |-> TRUE, text |-> k] : k \in OtherInputs \cup {ValidKeyAtZero}}

\* sys.stdout.encoding: one that has the marks U+2713 and U+2717 of the
\* status lines and one that has not
StdoutEncodings == {"utf-8", "ascii"}

CliInit ==
    /\ environ \in Environments
    /\ secrets = LoadSecrets(environ)
    /\ gen = NoGen
    /\ val = NoVal
    /\ codec = NoCodec
    /\ prev = NoPrev
    /\ thr = [i \in Threads |-> Idle]
    /\ load = Loaded(environ)
    /\ chk = NoCheck
    /\ cli \in {[pc |-> "main", value |-> v, now |-> t, stdout |-> e,
                  status |-> "", error |-> "", exit |-> 0] :
                    v \in CliValues, t \in ValidateClocks(PyInt(0)),
                    e \in StdoutEncodings}

\* "not args.value" with None only, an empty string counting as a key
Falsy_none_only(value) == ~value.given

\* "not args.value": None and the empty string are false
Falsy(value) == ~value.given \/ Len(value.text) = 0

\* main with action 'validate' up to the end of the process: sys.exit(1)
\* after the usage message, exit code 1 after an uncaught exception (of
\* the validation, or of print when sys.stdout cannot encode the mark of
\* the status line), exit code 0 when main returns
MainValidate ==
    /\ cli.pc = "main"
    /\ cli' =
         IF Falsy(cli.value)
         THEN [cli EXCEPT !.pc = "exited",
                          !.status = "Error: License key required for validation",
                          !.exit = 1]
         ELSE LET result == validate_license_signature(cli.value.text,
                                                       cli.now, secrets)
              IN  IF ~result.ok
                  THEN [cli EXCEPT !.pc = "exited", !.status = "Traceback",
                                   !.exit = 1]
                  ELSE IF cli.stdout # "utf-8"
                  THEN [cli EXCEPT !.pc = "exited", !.status = "Traceback",
                                   !.error = "UnicodeEncodeError", !.exit = 1]
                  ELSE IF result.val.valid
                  THEN [cli EXCEPT !.pc = "exited", !.status = "VALID"]
                  ELSE [cli EXCEPT !.pc = "exited", !.status = "INVALID",
                                   !.error = result.val.error]
    /\ UNCHANGED << environ, secrets, gen, val, codec, prev, thr, load, chk >>

CliNext == MainValidate

CliSpec == CliInit /\ [][CliNext]_vars

\* ------------------------------------------------------------------------
\* The load of the module
\* ------------------------------------------------------------------------
LoadInit ==
    /\ load \in {[pc |-> "start", procenv |-> e, file |-> f] :
                    e \in StartEnvironments, f \in EnvFiles}
    /\ environ = load.procenv
    /\ secrets = NoRead
    /\ gen = NoGen
    /\ val = NoVal
    /\ codec = NoCodec
    /\ prev = NoPrev
    /\ thr = [i \in Threads |-> Idle]
    /\ cli = NoCli
    /\ chk = NoCheck

\* the module body: load_env_secrets() and the three os.getenv assignments;
\* an exception of load_env_secrets ends the process before them
LoadModule ==
    /\ load.pc = "start"
    /\ LET loaded == load_env_secrets(environ, load.file)
       IN  IF loaded.ok
           THEN /\ environ' = loaded.val
                /\ secrets' = LoadSecrets(loaded.val)
                /\ load' = [load EXCEPT !.pc = "loaded"]
           ELSE /\ load' = [load EXCEPT !.pc = "failed"]
                /\ UNCHANGED << environ, secrets >>
    /\ UNCHANGED << gen, val, codec, prev, thr, cli, chk >>

LoadNext == LoadModule

LoadSpec == LoadInit /\ [][LoadNext]_vars

\* ------------------------------------------------------------------------
\* The alphabet codec on its own
\* ------------------------------------------------------------------------
\* either encode_to_alphabet(data, length) followed by decode_from_alphabet
\* of its result, or decode_from_alphabet(text) of a given string
CodecInit ==
    /\ environ = NoEnvironment
    /\ secrets = LoadSecrets(environ)
    /\ gen = NoGen
    /\ val = NoVal
    /\ prev = NoPrev
    /\ thr = [i \in Threads |-> Idle]
    /\ cli = NoCli
    /\ load = Loaded(environ)
    /\ chk = NoCheck
    /\ codec \in
          {[pc |-> "encode", encoded |-> FALSE, data |-> d, length |-> n,
            text |-> << >>, decoded |-> NoCall] :
              d \in CodecData, n \in 1..MaxLength}
          \cup
          {[pc |-> "decode", encoded |-> FALSE, data |-> << >>, length |-> 0,
            text |-> s, decoded |-> NoCall] : s \in CodecTexts}

\* encode_to_alphabet(data, length)
Encode ==
    /\ codec.pc = "encode"
    /\ codec' = [codec EXCEPT
                    !.pc = "decode",
                    !.encoded = TRUE,
                    !.text = encode_to_alphabet(codec.data, codec.length)]
    /\ UNCHANGED << environ, secrets, gen, val, prev, thr, cli, load, chk >>

\* decode_from_alphabet(text)
Decode ==
    /\ codec.pc = "decode"
    /\ codec' = [codec EXCEPT
                    !.pc = "done",
                    !.decoded = decode_from_alphabet(codec.text)]
    /\ UNCHANGED << environ, secrets, gen, val, prev, thr, cli, load, chk >>

CodecNext ==
    \/ Encode
    \/ Decode

CodecSpec == CodecInit /\ [][CodecNext]_vars

\* ------------------------------------------------------------------------
\* Vocabulary of the properties
\* ------------------------------------------------------------------------
ValidateCalled == val.source # "none"

\* the call returned a dictionary
Returned == val.out.ok

IsValid == Returned /\ val.out.val.valid

\* the error reason of an Invalid result, "" for any other outcome
ErrorOf(out) == IF out.ok /\ ~out.val.valid THEN out.val.error ELSE ""

IsInvalid(reason) == ErrorOf(val.out) = reason

TimestampRangeErrors == {"Timestamp in future", "License too old"}

\* five segments of five alphabet characters joined by '-'
WellFormedKey(k) ==
    /\ Len(k) = 29
    /\ \A i \in 1..29 :
          IF i \in {6, 12, 18, 24} THEN k[i] = Dash
          ELSE k[i] \in AlphabetChars

\* the timestamp the validator reads from a key that passes the format check
CandidateTimestamp(key) ==
    IntValue(UnpackUInt32(
        TimestampBytes(PayloadBytes(Split(Upper(key), Dash)).val)))

\* the three secrets with exactly one of them replaced by another value
SecretValues ==
    {DEFAULT_MASTER_SECRET, DEFAULT_VALIDATION_SECRET,
     DEFAULT_TIMESTAMP_SECRET} \cup {OtherSecret[n] : n \in EnvNames}

OneSecretChanged(s) ==
    {[s EXCEPT !.master = v] : v \in SecretValues \ {s.master}}
    \cup {[s EXCEPT !.validation = v] : v \in SecretValues \ {s.validation}}
    \cup {[s EXCEPT !.timestamp = v] : v \in SecretValues \ {s.timestamp}}

\* ------------------------------------------------------------------------
\* Properties
\* ------------------------------------------------------------------------
\* C1: a key returned by generate_license_key(), validated with the same
\* secrets at the clock second of its generation, is reported valid.
C1_GeneratedKeyIsValid ==
    (val.source = "generated" /\ FitsInt(gen.clock)
        /\ val.now = IntValue(gen.clock)) => IsValid

\* C2: for a key returned by generate_license_key() at clock value t, the
\* timestamp the validator reads from segments 1 to 3 equals t.
C2_TimestampRecovered ==
    val.source = "generated" => PyInt(CandidateTimestamp(val.input)) = gen.clock

\* C3: every value returned by generate_license_key() is a complete key, 29
\* characters in five segments of five alphabet characters joined by '-',
\* and passes validate_license_format.
C3_GeneratedKeyComplete ==
    gen.out.ok =>
        /\ WellFormedKey(gen.out.val)
        /\ validate_license_format(gen.out.val) = [ok |-> TRUE, val |-> TRUE]

C3_Witness ==
    /\ gen.out.ok
    /\ gen.clock = PyInt(1700000000)
    /\ Len(gen.out.val) = 29

\* C4: replacing one character of a segment of a generated key by a
\* different character makes the validator return Invalid, with the
\* signature error when the new character is in the alphabet and with the
\* format error when it is not.
C4_ModifiedKeyRejected ==
    (val.source = "modified" /\ val.pos % 6 # 0) =>
        /\ Returned
        /\ IF val.input[val.pos] \in AlphabetChars
           THEN IsInvalid("Invalid signature")
           ELSE IsInvalid("Invalid format")

C7_AgeBoundary ==
    (val.source = "generated" /\ FitsInt(gen.clock)) =>
        /\ val.now = IntValue(gen.clock) + MaxAge => IsValid
        /\ val.now = IntValue(gen.clock) + MaxAge + 1
              => IsInvalid("License too old")

\* C8: the validator returns Invalid with 'Invalid format' exactly when the
\* input is not five segments of five alphabet characters joined by '-'.
C8_FormatErrorExact ==
    ValidateCalled =>
        /\ Returned
        /\ IsInvalid("Invalid format") <=> ~WellFormedKey(val.input)

C8_Witness ==
    /\ val.input = KnownInvalidKey \o << 10 >>
    /\ IsInvalid("Invalid format")

\* C9: for a key that passes the format check, with candidate timestamp ts
\* and clock now, the validator returns a timestamp-range error exactly
\* when ts < now - 2*365*86400 or ts > now + 86400; both boundary values
\* pass the bounds check.
C9_TimestampBoundsExact ==
    (ValidateCalled /\ WellFormedKey(val.input)) =>
        LET ts == CandidateTimestamp(val.input)
        IN  /\ Returned
            /\ ErrorOf(val.out) \in TimestampRangeErrors
                 <=> (ts < val.now - MaxAge \/ ts > val.now + MaxSkew)

C9_Witness ==
    /\ ValidateCalled
    /\ WellFormedKey(val.input)
    /\ CandidateTimestamp(val.input) = val.now - MaxAge
    /\ Returned
    /\ ErrorOf(val.out) \notin TimestampRangeErrors

\* C10: for every input string the validator returns a result and lets no
\* exception escape; every failure is valid == False with a non-empty
\* error reason.
C10_NoExceptionEscapes ==
    ValidateCalled =>
        /\ Returned
        /\ ~val.out.val.valid => val.out.val.error # ""

C10_Witness ==
    /\ val.input = KnownInvalidKey \o << 10 >>
    /\ Returned
    /\ ~val.out.val.valid

\* C11: every result of validate_license_signature is either Valid with the
\* fields timestamp and age_days, or Invalid with one of the four reasons
\* 'Invalid format', 'Timestamp in future', 'License too old' and
\* 'Invalid signature'; 'Invalid timestamp structure' and
\* 'Validation error: ...' are returned for no input.
ResultErrors == {"Invalid format", "Invalid signature"} \cup TimestampRangeErrors

Low25(b) ==
    LET last == Rjust(LastN(b, 4), 4, 0)
    IN  << last[1] % 2, last[2], last[3], last[4] >>

\* two byte strings denote the same big-endian unsigned integer
SameValue(a, b) == StripZeros(a) = StripZeros(b)

\* C12: for every byte string b, decode_from_alphabet(encode_to_alphabet(b, 5))
\* read as a big-endian unsigned integer equals b read as a big-endian
\* unsigned integer modulo 32^5, including for the values 0 and 32^5 - 1.
C12_RoundTripMod ==
    (codec.pc = "done" /\ codec.encoded /\ codec.length = 5) =>
        /\ codec.decoded.ok
        /\ SameValue(codec.decoded.val, Low25(codec.data))

\* the value 32^5 - 1 under two more significant bytes
C12_Witness ==
    /\ codec.pc = "done"
    /\ codec.encoded
    /\ codec.length = 5
    /\ codec.data = << 90, 255, 255, 255, 255, 255 >>
    /\ codec.text = << 90, 90, 90, 90, 90 >>
    /\ codec.decoded = [ok |-> TRUE, val |-> << 1, 255, 255, 255 >>]

\* C19: decode_from_alphabet(s) raises ValueError if and only if s has a
\* character outside the alphabet, and then returns no byte string.
C19_DecodeErrorExact ==
    codec.pc = "done" =>
        IF \A i \in 1..Len(codec.text) : codec.text[i] \in AlphabetChars
        THEN /\ codec.decoded.ok
             /\ Len(codec.decoded.val) >= 1
        ELSE codec.decoded = [ok |-> FALSE, exc |-> "ValueError"]

\* '2a': a character outside the alphabet after one inside it
C19_Witness ==
    /\ codec.pc = "done"
    /\ codec.text = << 50, 97 >>
    /\ ~codec.decoded.ok

\* bit j (0 the least significant) of a byte string read as a big-endian
\* unsigned integer
Bit(data, j) ==
    LET idx == Len(data) - (j \div 8)
    IN  IF idx < 1 THEN 0 ELSE (data[idx] \div (2 ^ (j % 8))) % 2

\* base-32 digit k (0 the least significant) of that integer
Base32Digit(data, k) ==
    Bit(data, 5 * k) + 2 * Bit(data, 5 * k + 1) + 4 * Bit(data, 5 * k + 2)
        + 8 * Bit(data, 5 * k + 3) + 16 * Bit(data, 5 * k + 4)

\* C20: encode_to_alphabet(data, n) for n >= 1 returns exactly n alphabet
\* characters, the n least significant base-32 digits of data read as a
\* big-endian unsigned integer, most significant first, with '2' (digit 0)
\* in every leading position the value does not fill.
C20_EncodeDigits ==
    codec.encoded =>
        /\ Len(codec.text) = codec.length
        /\ \A i \in 1..codec.length :
              /\ codec.text[i] \in AlphabetChars
              /\ codec.text[i] =
                    LICENSE_ALPHABET[Base32Digit(codec.data,
                                                 codec.length - i) + 1]

\* the value 1 in seven digits: '2222223'
C20_Witness ==
    /\ codec.encoded
    /\ codec.data = << 1 >>
    /\ codec.length = 7
    /\ codec.text = << 50, 50, 50, 50, 50, 50, 51 >>

\* C13: generate_license_key() has no error path: for every clock reading
\* that is a non-negative number of seconds and every 12 random bytes it
\* returns a key and raises nothing; packing the timestamp into 4
\* big-endian bytes succeeds for every such clock value.
C13_GenerateNeverFails ==
    (gen.out # NoCall /\ ~gen.clock.neg) => gen.out.ok

C15_SecretsUnchanged == secrets = LoadSecrets(environ)

\* a key was generated and validated under a secret taken from the
\* environment
C15_Witness ==
    /\ environ["YURUCODE_MASTER_SECRET"].set
    /\ val.source = "generated"
    /\ secrets.master = OtherSecret["YURUCODE_MASTER_SECRET"]

\* the result of the call of thread i when it runs alone, with the same
\* argument, clock reading and random bytes
AloneResult(t) ==
    IF t.op = "generate"
    THEN generate_license_key(t.random, t.clock, secrets)
    ELSE validate_license_signature(t.input, IntValue(t.clock), secrets)

ResultsAsAlone ==
    \A i \in Threads : thr[i].pc = "done" => thr[i].out = AloneResult(thr[i])

\* a step writes no module global and the locals of at most one call
NoSharedWrite ==
    /\ secrets' = secrets
    /\ environ' = environ
    /\ \A i, j \in Threads : (i # j /\ thr'[i] # thr[i]) => thr'[j] = thr[j]

\* C16: under every interleaving of concurrently running
\* validate_license_signature and generate_license_key calls, no call writes
\* a variable that another call reads, and each call returns the result it
\* would return if run alone with the same clock reading and random bytes.
C16_ThreadsIndependent == [](ResultsAsAlone) /\ [][NoSharedWrite]_vars

\* a validation returned Valid while a generation in another thread was
\* between two of its reads of the secrets
C16_Witness ==
    \E i, j \in Threads :
        /\ thr[i].op = "validate"
        /\ thr[i].pc = "done"
        /\ thr[i].out.val.valid
        /\ thr[j].op = "generate"
        /\ thr[j].pc = "hmac1"

SecretOf(n) ==
    CASE n = "YURUCODE_MASTER_SECRET" -> secrets.master
      [] n = "YURUCODE_VALIDATION_SECRET" -> secrets.validation
      [] OTHER -> secrets.timestamp

\* C18: each of the three secrets equals the value of its environment
\* variable as set in the process environment at start, and equals the
\* default literal exactly when that variable is unset in the process
\* environment.
C18_SecretsFromProcessEnvironment ==
    load.pc = "loaded" =>
        \A n \in EnvNames :
            /\ load.procenv[n].set => SecretOf(n) = load.procenv[n].value
            /\ SecretOf(n) = DefaultSecret[n] <=> ~load.procenv[n].set

\* the value of the last line of the file that sets name n, when the file
\* has such a line
FileEntries(n) ==
    {i \in 1..Len(load.file.lines) :
        LET line == Strip(load.file.lines[i])
        IN  /\ Len(line) > 0
            /\ line[1] # 35
            /\ Find(line, 61) # -1
            /\ Strip(SubSeq(line, 1, Find(line, 61))) = NameText[n]}

LastFileValue(n) ==
    LET i    == CHOOSE k \in FileEntries(n) : \A m \in FileEntries(n) : m <= k
        line == Strip(load.file.lines[i])
    IN  Strip(SubSeq(line, Find(line, 61) + 2, Len(line)))

\* C18 as amended: each of the three secrets equals the value that the
\* last line of the .env.secret file gives its variable, when the file
\* exists and has such a line; otherwise the value of the variable in the
\* process environment at start, when it is set there; otherwise the
\* default literal.
C18_SecretsFromFileThenEnvironment ==
    load.pc = "loaded" =>
        \A n \in EnvNames :
            SecretOf(n) =
                IF load.file.exists /\ FileEntries(n) # {}
                THEN LastFileValue(n)
                ELSE IF load.procenv[n].set THEN load.procenv[n].value
                ELSE DefaultSecret[n]

\* the file gives the master secret while the process environment has
\* another value for it
C18_Witness ==
    /\ load.pc = "loaded"
    /\ load.file.exists
    /\ load.procenv["YURUCODE_MASTER_SECRET"].set
    /\ load.procenv["YURUCODE_MASTER_SECRET"].value
           = OtherSecret["YURUCODE_MASTER_SECRET"]
    /\ secrets.master = FileMaster

\* the followed validation has returned
Checked == chk.pc = "done" /\ chk.out.ok

\* C21: every Valid result carries the candidate timestamp of its key as
\* timestamp, and as age_days the floor of (now - timestamp) / 86400: the
\* integer a with a * 86400 <= now - timestamp < (a + 1) * 86400, where
\* now is the clock reading of that validation.
C21_ValidResultFields ==
    (Checked /\ chk.out.val.valid) =>
        LET r == chk.out.val
        IN  /\ r.timestamp = CandidateTimestamp(chk.input)
            /\ r.age_days * 86400 <= chk.now - r.timestamp
            /\ chk.now - r.timestamp < (r.age_days + 1) * 86400

\* a Valid result at a clock before the epoch, where rounding toward zero
\* and rounding down differ
C21_Witness ==
    /\ Checked
    /\ chk.out.val.valid
    /\ chk.now = -1
    /\ chk.out.val.age_days = -1

\* the followed validation has returned for a key that passes
\* validate_license_format
CheckedFormatted == Checked /\ validate_license_format(chk.input).val

\* C22: for every key that passes the format check and every clock reading
\* greater than 2*365*86400, the validator returns Invalid with
\* 'License too old', and so neither Valid nor 'Invalid signature' nor
\* 'Timestamp in future'.
C22_TooOldAfterTwoYears ==
    (CheckedFormatted /\ chk.now > MaxAge) =>
        chk.out = Invalid("License too old")

\* the key whose signature segments match, one second past the two years
C22_Witness ==
    /\ CheckedFormatted
    /\ chk.input = ValidKeyAtZero
    /\ secrets = LoadSecrets(NoEnvironment)
    /\ chk.now = MaxAge + 1
    /\ chk.out = Invalid("License too old")

\* the segments the validator decodes, for a key that passes the format check
SegmentsOf(key) == Split(Upper(key), Dash)

\* C23: for every key that passes the format check, each of segments 1 to
\* 3 decodes to between 1 and 4 bytes, the single byte 00 for '22222' and
\* no leading zero byte otherwise; the concatenated payload is at most 12
\* bytes before the padding to 16, and the candidate timestamp read from
\* the last 4 bytes is 0.
C23_PayloadShortTimestampZero ==
    chk.pc = "timestamp" =>
        LET segments == SegmentsOf(chk.input)
        IN  /\ \A i \in 1..3 :
                  LET d == decode_from_alphabet(segments[i])
                  IN  /\ d.ok
                      /\ Len(d.val) \in 1..4
                      /\ IF segments[i] = Seg(50) THEN d.val = << 0 >>
                         ELSE d.val[1] # 0
            /\ Len(DecodeConcat(segments, 0, 3).val) <= 12
            /\ Len(PayloadBytes(segments).val) = 16
            /\ CandidateTimestamp(chk.input) = 0

\* a validation that decoded three segments of 4 bytes each and one that
\* decoded a zero segment
C23_Witness ==
    /\ Checked
    /\ SegmentsOf(chk.input)[1] = Seg(90)
    /\ SegmentsOf(chk.input)[2] = Seg(50)
    /\ Len(DecodeConcat(SegmentsOf(chk.input), 0, 3).val) = 9
    /\ "timestamp" \in {chk.trail[i] : i \in 1..Len(chk.trail)}

\* the signature the validator recomputes for a key that passes the format
\* check
ExpectedSignature(key) ==
    create_license_signature(
        Slice(SegmentsOf(key), 0, 3),
        UnpackUInt32(TimestampBytes(PayloadBytes(SegmentsOf(key)).val)),
        secrets)

\* C24: for every key that passes the format check and reaches the
\* signature comparison, segments 4 and 5 decode to at most 8 bytes, the
\* provided signature padded to 10 bytes has 00 at its indices 8 and 9,
\* and the result is Valid only when bytes 8 and 9 of the recomputed
\* signature are both 00.
C24_ProvidedSignatureTail ==
    (Checked /\ chk.trail = << "format", "timestamp", "signature" >>) =>
        LET segments == SegmentsOf(chk.input)
            provided == ProvidedSignature(segments).val
            expected == ExpectedSignature(chk.input)
        IN  /\ Len(DecodeConcat(segments, 3, 5).val) <= 8
            /\ Len(provided) = 10
            /\ provided[9] = 0
            /\ provided[10] = 0
            /\ chk.out.val.valid => (expected[9] = 0 /\ expected[10] = 0)

\* a comparison that succeeded, and so on a recomputed signature whose
\* bytes 8 and 9 are 00
C24_Witness ==
    /\ Checked
    /\ chk.trail = << "format", "timestamp", "signature" >>
    /\ chk.out.val.valid
    /\ ExpectedSignature(chk.input)[9] = 0
    /\ Len(DecodeConcat(SegmentsOf(chk.input), 3, 5).val) = 2

\* the signature segments of the key are the ones the validator expects
SignatureMatches(key) ==
    Slice(ExpectedSignature(key), 0, 10)
        = Slice(ProvidedSignature(SegmentsOf(key)).val, 0, 10)

\* C25: the validator makes its checks in the order format, timestamp
\* range, signature, and returns at the first one that fails: a key with a
\* bad format returns 'Invalid format' after the format check alone; a
\* key whose candidate timestamp is out of range returns the
\* timestamp-range error ('Timestamp in future' above now + 86400,
\* 'License too old' below now - 2*365*86400) without a signature check,
\* whether or not its signature segments match; only the other keys reach
\* the signature check.
C25_ChecksInOrder ==
    /\ \E n \in 0..3 :
          chk.trail = SubSeq(<< "format", "timestamp", "signature" >>, 1, n)
    /\ Checked =>
          IF ~WellFormedKey(chk.input)
          THEN /\ chk.trail = << "format" >>
               /\ chk.out = Invalid("Invalid format")
          ELSE LET ts == CandidateTimestamp(chk.input)
               IN  IF ts > chk.now + MaxSkew
                   THEN /\ chk.trail = << "format", "timestamp" >>
                        /\ chk.out = Invalid("Timestamp in future")
                   ELSE IF ts < chk.now - MaxAge
                   THEN /\ chk.trail = << "format", "timestamp" >>
                        /\ chk.out = Invalid("License too old")
                   ELSE /\ chk.trail = << "format", "timestamp", "signature" >>
                        /\ chk.out.val.valid <=> SignatureMatches(chk.input)
                        /\ ~chk.out.val.valid
                              => chk.out = Invalid("Invalid signature")

\* a key whose signature segments match, rejected for its timestamp before
\* any signature check
C25_Witness ==
    /\ Checked
    /\ WellFormedKey(chk.input)
    /\ SignatureMatches(chk.input)
    /\ chk.trail = << "format", "timestamp" >>
    /\ chk.out = Invalid("Timestamp in future")

\* random payloads that differ from r in one byte: by the bit of value 2
\* or by the bit of value 1, at each of the byte indices 0, 1, 2, 3, 6, 7,
\* 8 and 11
PayloadVariants(r) ==
    {[r EXCEPT ![j + 1] = IF (@ \div d) % 2 = 0 THEN @ + d ELSE @ - d] :
        j \in {0, 1, 2, 3, 6, 7, 8, 11}, d \in {1, 2}}

\* two random payloads agree on the low 25 bits of bytes 0-5 and of bytes
\* 6-10
AgreeOnLowBits(r1, r2) ==
    /\ Low25(Slice(r1, 0, 6)) = Low25(Slice(r2, 0, 6))
    /\ Low25(Slice(r1, 6, 11)) = Low25(Slice(r2, 6, 11))

\* C26: the key generate_license_key() returns depends on the payload only
\* through the low 25 bits of each chunk and on the full timestamp:
\* segments 1 and 2 encode the low 25 bits of bytes 0-5 and 6-10, segment
\* 3 encodes the timestamp modulo 32^5 and no random byte, and a call in
\* the same second with the same secrets whose random bytes agree on the
\* low 25 bits of bytes 0-5 and of bytes 6-10 returns the identical key.
C26_KeyFromLowBits ==
    (gen.out.ok /\ val = NoVal) =>
        LET segments == Split(gen.out.val, Dash)
        IN  /\ segments[1] = encode_to_alphabet(Low25(Slice(gen.random, 0, 6)), 5)
            /\ segments[2] = encode_to_alphabet(Low25(Slice(gen.random, 6, 11)), 5)
            /\ segments[3] = encode_to_alphabet(Low25(PackUInt32(gen.clock).val), 5)
            /\ \A r \in PayloadVariants(gen.random) :
                  AgreeOnLowBits(r, gen.random) =>
                      generate_license_key(r, gen.clock, secrets) = gen.out

\* a key generated in the present, from a payload of which some variants
\* agree on the low bits and others do not
C26_Witness ==
    /\ gen.out.ok
    /\ val = NoVal
    /\ gen.clock = PyInt(1700000000)
    /\ \E r \in PayloadVariants(gen.random) :
          r # gen.random /\ AgreeOnLowBits(r, gen.random)
    /\ \E r \in PayloadVariants(gen.random) : ~AgreeOnLowBits(r, gen.random)

====
